---- MODULE Spec2Model ----
(***************************************************************************)
(* Avatar-chat monitoring dashboard: the hosted tables `sessions` and      *)
(* `messages` with the cleanup trigger of the migrations, the handlers of  *)
(* SessionsList (refresh, stop, relevant, archive, trash, restore), the    *)
(* 10-second refresh timer and syncHeyGenMessages.                         *)
(*                                                                         *)
(* Time is counted in days.  Session ids are 1..NumSessions.  A remote     *)
(* call (database or provider) either answers or fails; the outcome is an  *)
(* input of the step that makes the call.                                  *)
(***************************************************************************)
EXTENDS Integers, Sequences, FiniteSets, TLC

VARIABLES
  sessionsTable,   \* table sessions: session_id -> row, or Absent
  messagesTable,   \* table messages: sequence of rows, in insertion order
  nextId,          \* session ids below nextId have been inserted
  now,             \* the clock, in days
  providerActive,  \* session ids the avatar provider lists as active
  transcript,      \* the provider's transcript of each session
  isAuthenticated, \* App: state isAuthenticated
  currentView,     \* App: state currentView
  instance,        \* number of times SessionsList has been mounted
  timers,          \* the live setInterval timers of SessionsList
  error,           \* SessionsList: state error
  isRefreshing,    \* SessionsList: state isRefreshing
  runs,            \* executions of handleRefresh in progress
  preTrash,        \* history: the row as it was when it was moved to trash
  sessionsList,    \* SessionsList: states sessions, filter, viewMode; fetches in flight
  sessionDetails,  \* SessionDetails: prop sessionId, state messages; fetches in flight
  dashboardStats   \* DashboardStats: data, selected metric and interval, the chart

vars == <<sessionsTable, messagesTable, nextId, now, providerActive, transcript,
          isAuthenticated, currentView, instance, timers, error, isRefreshing, runs, preTrash,
          sessionsList, sessionDetails, dashboardStats>>

-----------------------------------------------------------------------------
(* Bounds of the model *)

NumSessions == 2
MaxPeriods == 1
MaxRuns == 1
MaxMounts == 2
MaxTranscript == 3
MaxStored == 4
MaxOverlap == 2
MaxDays == 3
MaxMessageRows == 2
MaxCount == 2

(* Program constants *)

RetentionDays == 30
RefreshIntervalMs == 10000

SessionIds == 1..NumSessions
RunIds == 1..MaxRuns

\* The instants at which the clock is observed: days 0 and 1 and the day
\* after each retention period, so that ages of 30 and of 31 days occur.
Times == {0, 1} \cup { k * RetentionDays + 1 : k \in 1..MaxPeriods }

NULL == "NULL"             \* SQL NULL in a text column, null in a string state
NoTime == 0 - 1            \* SQL NULL in a timestamptz column
Absent == [absent |-> TRUE]  \* no row with that session_id

OpenStatuses == {"active", "connecting", "connected"}
Statuses == OpenStatuses \cup {"completed", "error"}

\* A row of sessions as INSERT creates it (column defaults of the migrations).
NewSession(status, t) ==
  [ end_time      |-> NoTime,
    status        |-> status,
    heygen_status |-> NULL,
    last_sync_at  |-> t,
    is_relevant   |-> FALSE,
    is_archived   |-> FALSE,
    deleted_at    |-> NoTime ]

-----------------------------------------------------------------------------
(* The database *)

\* messages.session_id REFERENCES sessions(session_id)
HasMessages(msgs, sid) == \E i \in DOMAIN msgs : msgs[i].session_id = sid

\* A faulty variant of ExpiredSessions: a row is taken on its 30th day in the trash
ExpiredSessionsOffByOne(table, t) ==
  { s \in SessionIds : table[s] # Absent /\ table[s].deleted_at # NoTime
                        /\ table[s].deleted_at <= t - RetentionDays }

\* WHERE deleted_at IS NOT NULL AND deleted_at < NOW() - INTERVAL '30 days'
ExpiredSessions(table, t) ==
  { s \in SessionIds : table[s] # Absent /\ table[s].deleted_at # NoTime
                        /\ table[s].deleted_at < t - RetentionDays }

\* cleanup_deleted_sessions(), run AFTER INSERT OR UPDATE ... FOR EACH
\* STATEMENT inside the statement's transaction.  The DELETE of a session
\* that messages still reference violates the foreign key and aborts the
\* statement that fired the trigger.
CleanupDeletedSessions(table, msgs, t) ==
  LET expired == ExpiredSessions(table, t) IN
  IF \E s \in expired : HasMessages(msgs, s)
    THEN [ok |-> FALSE, table |-> table]
    ELSE [ok |-> TRUE,
          table |-> [s \in SessionIds |-> IF s \in expired THEN Absent ELSE table[s]]]

\* SET col = value for the columns of the patch
ApplyPatch(row, patch) ==
  [f \in DOMAIN row |-> IF f \in DOMAIN patch THEN patch[f] ELSE row[f]]

\* supabase.from('sessions').update(patch).eq('session_id', sid), answered
\* (reqOk) or not.  The result is {error} and the table afterwards: a
\* statement that fails, or whose trigger fails, changes nothing.
UpdateSessions(table, msgs, sid, patch, t, reqOk) ==
  LET updated == [table EXCEPT ![sid] =
                    IF table[sid] = Absent THEN Absent ELSE ApplyPatch(table[sid], patch)]
      cleaned == CleanupDeletedSessions(updated, msgs, t)
  IN IF reqOk /\ cleaned.ok
       THEN [ok |-> TRUE, table |-> cleaned.table]
       ELSE [ok |-> FALSE, table |-> table]

\* INSERT INTO sessions (session_id, status) by the backend that records the
\* chats; the statement fires the cleanup trigger as an UPDATE does.
InsertIntoSessions(table, msgs, sid, status, t) ==
  LET inserted == [table EXCEPT ![sid] = NewSession(status, t)]
      cleaned == CleanupDeletedSessions(inserted, msgs, t)
  IN IF cleaned.ok
       THEN [ok |-> TRUE, table |-> cleaned.table]
       ELSE [ok |-> FALSE, table |-> table]

-----------------------------------------------------------------------------
(* SessionsList: the view modes of fetchSessions *)

VIEW_MODES == {"active", "archived", "trash"}

\* A faulty variant of ViewModePredicate: the trash view forgets archived rows
ViewModePredicateTrashOnlyUnarchived(mode, row) ==
  CASE mode = "active"   -> row.is_archived = FALSE /\ row.deleted_at = NoTime
    [] mode = "archived" -> row.is_archived = TRUE /\ row.deleted_at = NoTime
    [] mode = "trash"    -> row.is_archived = FALSE /\ row.deleted_at # NoTime

\* switch (viewMode) { ... } of fetchSessions: the row predicate each view
\* mode adds to the query
ViewModePredicate(mode, row) ==
  CASE mode = "active"   -> row.is_archived = FALSE /\ row.deleted_at = NoTime
    [] mode = "archived" -> row.is_archived = TRUE /\ row.deleted_at = NoTime
    [] mode = "trash"    -> row.deleted_at # NoTime

\* The view modes whose query selects the row
ViewsOf(row) == { mode \in VIEW_MODES : ViewModePredicate(mode, row) }

\* The state the components are constructed with.
InitialSessionsList == [sessions |-> {}, filter |-> "all", viewMode |-> "active", fetches |-> {}]
\* selectedSessionId is null: no session id.
NoSession == 0
InitialSessionDetails == [sessionId |-> NoSession, messages |-> {}, fetches |-> {}]
\* SessionDetails has just been mounted for the session: the fetchMessages of
\* its effect is in flight.
JustSelected(sid) == [sessionId |-> sid, messages |-> {}, fetches |-> {sid}]

InitialDashboardStats == [dashboardData |-> NULL, selectedMetric |-> "sessions", timeInterval |-> "day"]

\* The parameters of the query that a fetchSessions sends: those of the render
\* whose closure it is.
CurrentClosure == [viewMode |-> sessionsList.viewMode, filter |-> sessionsList.filter]
InitialClosure == [viewMode |-> InitialSessionsList.viewMode, filter |-> InitialSessionsList.filter]

\* Before SessionsList is mounted.
InitComponents ==
  /\ sessionsList = InitialSessionsList
  /\ sessionDetails = InitialSessionDetails
  /\ dashboardStats = InitialDashboardStats

\* SessionsList has just been mounted: the fetchSessions of its effect is in
\* flight.
InitComponentsMounted ==
  /\ sessionsList = [InitialSessionsList EXCEPT !.fetches = {InitialClosure}]
  /\ sessionDetails = InitialSessionDetails
  /\ dashboardStats = InitialDashboardStats

\* setError(err instanceof Error ? err.message : '... mislukt'): some text
ErrorText == "error"

\* fetchSessions() of the render with the given closure: setError(null) and
\* the query is sent; when the query fails (fOk false) the error text is set,
\* otherwise the request is in flight until FetchSessionsAnswer delivers its
\* rows.
FetchSessionsFrom(list, closure, fOk) ==
  /\ error' = IF fOk THEN NULL ELSE ErrorText
  /\ sessionsList' = IF fOk THEN [list EXCEPT !.fetches = @ \cup {closure}] ELSE list

FetchSessions(closure, fOk) == FetchSessionsFrom(sessionsList, closure, fOk)

Mounted == isAuthenticated /\ currentView = "sessions"

\* setInterval(() => { handleRefresh(); }, 10000) of the instance inst of
\* SessionsList
IntervalOf(inst) == [inst |-> inst, every |-> RefreshIntervalMs]

\* A button of the row of session sid can be clicked: the list is rendered
\* (no error panel) and the session has existed, so that a list, fresh or
\* stale, shows it.
RowShown(sid) == Mounted /\ error = NULL /\ sid < nextId

-----------------------------------------------------------------------------
(* History variable preTrash *)

\* The columns the trash and restore handlers are to leave alone.
Kept(row) ==
  [ status      |-> row.status,
    end_time    |-> row.end_time,
    is_relevant |-> row.is_relevant,
    is_archived |-> row.is_archived ]

\* Rows that a step changed or removed lose their record, except the rows
\* `keep` that the step trashed or restored.
PreTrashAfter(new, keep, value) ==
  [s \in SessionIds |->
     IF new[s] = Absent THEN Absent
     ELSE IF s \in keep THEN value
     ELSE IF new[s] # sessionsTable[s] THEN Absent
     ELSE preTrash[s]]

-----------------------------------------------------------------------------
(* SessionsList: lifecycle handlers.  Each is one click: the update, then   *)
(* fetchSessions() on success or the error text on failure.  sid and        *)
(* currentValue are the handler's arguments, taken from the rendered row.   *)

UNCHANGED_App == UNCHANGED <<isAuthenticated, currentView, instance, timers>>
UNCHANGED_Provider == UNCHANGED <<providerActive, transcript>>
UNCHANGED_Refresh == UNCHANGED <<isRefreshing, runs>>
UNCHANGED_Others == UNCHANGED <<sessionDetails, dashboardStats>>
UNCHANGED_Components == UNCHANGED sessionsList /\ UNCHANGED_Others
\* The common tail of the handlers: res is the result of the update.
AfterUpdate(res, fOk) ==
  /\ sessionsTable' = res.table
  /\ IF res.ok THEN FetchSessions(CurrentClosure, fOk)
               ELSE error' = ErrorText /\ UNCHANGED sessionsList

\* A faulty variant of RelevantPatch: the archive flag is written too
RelevantPatchAlsoArchives(currentValue) ==
  [is_relevant |-> ~currentValue, is_archived |-> ~currentValue]

\* .update({ is_relevant: !currentValue })
RelevantPatch(currentValue) == [is_relevant |-> ~currentValue]

HandleToggleRelevantWith(sid, currentValue, reqOk, fOk) ==
  /\ RowShown(sid)
  /\ LET res == UpdateSessions(sessionsTable, messagesTable, sid,
                               RelevantPatch(currentValue), now, reqOk)
     IN /\ AfterUpdate(res, fOk)
        /\ preTrash' = PreTrashAfter(res.table, {}, Absent)
  /\ UNCHANGED <<messagesTable, nextId, now>>
  /\ UNCHANGED_App /\ UNCHANGED_Provider /\ UNCHANGED_Refresh
  /\ UNCHANGED_Others

HandleToggleRelevant(sid) ==
  \E currentValue, reqOk, fOk \in BOOLEAN :
    HandleToggleRelevantWith(sid, currentValue, reqOk, fOk)

\* .update({ is_archived: !currentValue })
ArchivedPatch(currentValue) == [is_archived |-> ~currentValue]

HandleToggleArchivedWith(sid, currentValue, reqOk, fOk) ==
  /\ RowShown(sid)
  /\ LET res == UpdateSessions(sessionsTable, messagesTable, sid,
                               ArchivedPatch(currentValue), now, reqOk)
     IN /\ AfterUpdate(res, fOk)
        /\ preTrash' = PreTrashAfter(res.table, {}, Absent)
  /\ UNCHANGED <<messagesTable, nextId, now>>
  /\ UNCHANGED_App /\ UNCHANGED_Provider /\ UNCHANGED_Refresh
  /\ UNCHANGED_Others

HandleToggleArchived(sid) ==
  \E currentValue, reqOk, fOk \in BOOLEAN :
    HandleToggleArchivedWith(sid, currentValue, reqOk, fOk)

\* A faulty variant of TrashPatch: trashing also takes the row out of the archive
TrashPatchUnarchives(t) == [deleted_at |-> t, is_archived |-> FALSE]

\* .update({ deleted_at: new Date().toISOString() })
TrashPatch(t) == [deleted_at |-> t]

HandleMoveToTrashWith(sid, reqOk, fOk) ==
  /\ RowShown(sid)
  /\ LET old == sessionsTable[sid]
         res == UpdateSessions(sessionsTable, messagesTable, sid, TrashPatch(now), now, reqOk)
     IN /\ AfterUpdate(res, fOk)
        /\ preTrash' =
             IF res.ok /\ old # Absent
               THEN PreTrashAfter(res.table, {sid},
                      IF old.deleted_at = NoTime THEN Kept(old) ELSE preTrash[sid])
               ELSE PreTrashAfter(res.table, {}, Absent)
  /\ UNCHANGED <<messagesTable, nextId, now>>
  /\ UNCHANGED_App /\ UNCHANGED_Provider /\ UNCHANGED_Refresh
  /\ UNCHANGED_Others

HandleMoveToTrash(sid) ==
  \E reqOk, fOk \in BOOLEAN : HandleMoveToTrashWith(sid, reqOk, fOk)

\* .update({ deleted_at: null })
RestorePatch == [deleted_at |-> NoTime]

HandleRestoreFromTrashWith(sid, reqOk, fOk) ==
  /\ RowShown(sid)
  /\ LET res == UpdateSessions(sessionsTable, messagesTable, sid, RestorePatch, now, reqOk)
     IN /\ AfterUpdate(res, fOk)
        /\ preTrash' =
             IF res.ok
               THEN PreTrashAfter(res.table, {sid}, preTrash[sid])
               ELSE PreTrashAfter(res.table, {}, Absent)
  /\ UNCHANGED <<messagesTable, nextId, now>>
  /\ UNCHANGED_App /\ UNCHANGED_Provider /\ UNCHANGED_Refresh
  /\ UNCHANGED_Others

HandleRestoreFromTrash(sid) ==
  \E reqOk, fOk \in BOOLEAN : HandleRestoreFromTrashWith(sid, reqOk, fOk)

-----------------------------------------------------------------------------
(* SessionsList: handleStopSession *)

\* What stopHeyGenSession(sid) can do: report the session as already
\* completed, stop it ("stopped"), return an {status: 'error'} object (no API
\* key, a non-OK response, a network error), or, when the body of an OK
\* response is not JSON, reject ("thrown": return response.json() is not
\* awaited inside the try).
StopOutcomes(sid) ==
  IF sid \in providerActive THEN {"stopped", "error", "thrown"} ELSE {"completed", "error"}

\* .update({ status: 'completed', heygen_status: 'completed',
\*           end_time: new Date()..., last_sync_at: new Date()... })
CompletedPatch(t) ==
  [status |-> "completed", heygen_status |-> "completed",
   end_time |-> t, last_sync_at |-> t]

\* await stopHeyGenSession(sessionId): the returned object is not looked at;
\* unless the call rejects, the update follows in every case.
HandleStopSessionWith(sid, outcome, reqOk, fOk) ==
  /\ RowShown(sid)
  /\ outcome \in StopOutcomes(sid)
  /\ providerActive' = IF outcome \in {"stopped", "thrown"}
                         THEN providerActive \ {sid} ELSE providerActive
  /\ IF outcome = "thrown"
       THEN /\ error' = ErrorText
            /\ UNCHANGED <<sessionsTable, preTrash, sessionsList>>
       ELSE LET res == UpdateSessions(sessionsTable, messagesTable, sid,
                                      CompletedPatch(now), now, reqOk)
            IN /\ AfterUpdate(res, fOk)
               /\ preTrash' = PreTrashAfter(res.table, {}, Absent)
  /\ UNCHANGED <<messagesTable, nextId, now, transcript>>
  /\ UNCHANGED_App /\ UNCHANGED_Refresh
  /\ UNCHANGED_Others

HandleStopSession(sid) ==
  \E outcome \in {"stopped", "completed", "error", "thrown"}, reqOk, fOk \in BOOLEAN :
    HandleStopSessionWith(sid, outcome, reqOk, fOk)

\* The error panel's button: onClick={() => setError(null)}
DismissError ==
  /\ Mounted /\ error # NULL
  /\ error' = NULL
  /\ UNCHANGED <<sessionsTable, messagesTable, nextId, now, preTrash>>
  /\ UNCHANGED_App /\ UNCHANGED_Provider /\ UNCHANGED_Refresh
  /\ UNCHANGED_Components

-----------------------------------------------------------------------------
(* lib/heygen: syncHeyGenMessages *)

Roles == {"user", "assistant"}
Contents == {"a", "b"}

\* fetchHeyGenMessages(sessionId): the provider's transcript of the session,
\* a list of {role, content, timestamp}
FetchHeyGenMessages(sid) == transcript[sid]

\* sender: message.role === 'user' ? 'user' : 'avatar'
Sender(role) == IF role = "user" THEN "user" ELSE "avatar"

\* new Date(message.timestamp).toISOString(), stored in a timestamptz column:
\* the instant, which the ISO string keeps at the millisecond precision of Date
ToISOString(ts) == ts

\* .insert({ session_id, sender, message, timestamp })
MessageRow(sid, m) ==
  [session_id |-> sid, sender |-> Sender(m.role), message |-> m.content,
   timestamp |-> ToISOString(m.timestamp)]

\* .from('messages').select('message, timestamp').eq('session_id', sid): the
\* texts stored for the session, or no data when the query fails (its error
\* is not looked at)
ExistingMessages(msgs, sid, selOk) ==
  IF selOk
    THEN [data |-> TRUE,
          texts |-> { msgs[i].message : i \in { k \in DOMAIN msgs : msgs[k].session_id = sid } }]
    ELSE [data |-> FALSE, texts |-> {}]

\* existingMessages?.some(existing => existing.message === message.content)
MessageExists(existing, m) == existing.data /\ m.content \in existing.texts

\* The insert of one message succeeds: the request is answered, the session
\* row is there (foreign key) and the table of the model has room.
InsertSucceeds(msgs, table, sid, i, failing) ==
  /\ i \notin failing
  /\ table[sid] # Absent
  /\ Len(msgs) < MaxStored

\* for (const message of messages) { if (!messageExists) insert }: the list
\* of existing messages was read once, before the loop; a failed insert is
\* logged and the loop goes on.
RECURSIVE SyncLoop(_, _, _, _, _, _, _)
SyncLoop(msgs, table, sid, messages, i, existing, failing) ==
  IF i > Len(messages) THEN msgs
  ELSE LET m == messages[i]
           inserted == IF ~MessageExists(existing, m)
                          /\ InsertSucceeds(msgs, table, sid, i, failing)
                         THEN Append(msgs, MessageRow(sid, m))
                         ELSE msgs
       IN SyncLoop(inserted, table, sid, messages, i + 1, existing, failing)

\* syncHeyGenMessages(sid): the messages table afterwards.  selOk: the select
\* of the stored messages is answered; fetchOk: fetchHeyGenMessages returns
\* (when it throws, the catch logs and nothing is inserted); failing: the
\* positions in the transcript whose insert fails.
SyncHeyGenMessages(msgs, table, sid, selOk, fetchOk, failing) ==
  IF ~fetchOk THEN msgs
  ELSE SyncLoop(msgs, table, sid, FetchHeyGenMessages(sid), 1,
                ExistingMessages(msgs, sid, selOk), failing)

InsertFailures == SUBSET (1..MaxTranscript)

-----------------------------------------------------------------------------
(* SessionsList: handleRefresh.  A run of handleRefresh is one of the slots  *)
(* of runs; its awaits are the steps.  inst is the instance of SessionsList  *)
(* whose state the run sets: a set state of an unmounted instance is lost.   *)

NoRuns == [r \in RunIds |-> [pc |-> "idle"]]

IdleRuns == { r \in DOMAIN runs : runs[r].pc = "idle" }
FreeRun == CHOOSE r \in IdleRuns : \A q \in IdleRuns : r <= q

Live(r) == Mounted /\ runs[r].inst = instance

\* if (isRefreshing) return; setIsRefreshing(true); setError(null);
\* stale is the isRefreshing of the closure that runs.
RefreshBegin(inst, stale, closure) ==
  /\ ~stale
  /\ IdleRuns # {}
  /\ runs' = [runs EXCEPT ![FreeRun] = [pc |-> "select", inst |-> inst, closure |-> closure]]
  /\ IF Mounted /\ inst = instance
       THEN isRefreshing' = TRUE /\ error' = NULL
       ELSE UNCHANGED <<isRefreshing, error>>
  /\ UNCHANGED <<sessionsTable, messagesTable, nextId, now, preTrash>>
  /\ UNCHANGED_App /\ UNCHANGED_Provider
  /\ UNCHANGED_Components

\* The callback of setInterval was created by the first render (the effect
\* has no dependencies): its handleRefresh sees isRefreshing as it was then.
TimerClosureIsRefreshing == FALSE

\* A tick of the interval timer of a SessionsList
TimerTick ==
  \E t \in timers : RefreshBegin(t.inst, TimerClosureIsRefreshing, InitialClosure)

\* The Vernieuwen button: onClick={handleRefresh} disabled={isRefreshing}
ClickRefresh ==
  /\ Mounted /\ error = NULL
  /\ RefreshBegin(instance, isRefreshing, CurrentClosure)

\* .select('*').in('status', ['active','connecting','connected']).is('end_time', null)
OpenSessions(table) ==
  { s \in SessionIds : table[s] # Absent /\ table[s].status \in OpenStatuses
                        /\ table[s].end_time = NoTime }

\* The end of a run: finally { setIsRefreshing(false) }, with the error text
\* the run leaves (NULL: none)
RefreshEnd(r, err) ==
  /\ runs' = [runs EXCEPT ![r] = [pc |-> "idle"]]
  /\ IF Live(r)
       THEN isRefreshing' = FALSE /\ error' = err
       ELSE UNCHANGED <<isRefreshing, error>>

\* The select of the open sessions is answered: an error is thrown to the
\* catch, an empty list ends the run, any other list is kept.
RefreshSelect(r) ==
  /\ runs[r].pc = "select"
  /\ \E selOk \in BOOLEAN :
       LET activeSessions == OpenSessions(sessionsTable) IN
       IF ~selOk THEN RefreshEnd(r, ErrorText)
       ELSE IF activeSessions = {} THEN RefreshEnd(r, error)
       ELSE /\ runs' = [runs EXCEPT ![r] =
                  [pc |-> "list", inst |-> runs[r].inst, closure |-> runs[r].closure,
                   selected |-> activeSessions]]
            /\ UNCHANGED <<isRefreshing, error>>
  /\ UNCHANGED <<sessionsTable, messagesTable, nextId, now, preTrash>>
  /\ UNCHANGED_App /\ UNCHANGED_Provider
  /\ UNCHANGED_Components

\* getAllActiveSessions(): the provider's list, or [] when the API key is
\* missing, the request fails or the answer has no sessions
GetAllActiveSessions(listOk) == IF listOk THEN providerActive ELSE {}

RefreshGetList(r) ==
  /\ runs[r].pc = "list"
  /\ \E listOk \in BOOLEAN :
       runs' = [runs EXCEPT ![r] =
          [pc |-> "process", inst |-> runs[r].inst, closure |-> runs[r].closure,
           selected |-> runs[r].selected,
           heygenIds |-> GetAllActiveSessions(listOk),
           listObtained |-> listOk,
           todo |-> runs[r].selected]]
  /\ UNCHANGED <<sessionsTable, messagesTable, nextId, now, error, isRefreshing, preTrash>>
  /\ UNCHANGED_App /\ UNCHANGED_Provider
  /\ UNCHANGED_Components

\* One callback of activeSessions.map inside Promise.all: the update to
\* completed, whose result is not looked at, or the sync of the messages.
RefreshProcessWith(r, s, reqOk, selOk, fetchOk, failing) ==
  /\ runs[r].pc = "process"
  /\ s \in runs[r].todo
  /\ IF s \notin runs[r].heygenIds
       THEN LET res == UpdateSessions(sessionsTable, messagesTable, s,
                                      CompletedPatch(now), now, reqOk)
            IN /\ sessionsTable' = res.table
               /\ preTrash' = PreTrashAfter(res.table, {}, Absent)
               /\ UNCHANGED messagesTable
       ELSE /\ messagesTable' = SyncHeyGenMessages(messagesTable, sessionsTable, s,
                                                   selOk, fetchOk, failing)
            /\ UNCHANGED <<sessionsTable, preTrash>>
  /\ runs' = [runs EXCEPT ![r].todo = @ \ {s}]
  /\ UNCHANGED <<nextId, now, error, isRefreshing>>
  /\ UNCHANGED_App /\ UNCHANGED_Provider
  /\ UNCHANGED_Components

RefreshProcess(r) ==
  \E s \in SessionIds :
    \/ \E reqOk \in BOOLEAN : RefreshProcessWith(r, s, reqOk, TRUE, TRUE, {})
    \/ \E selOk, fetchOk \in BOOLEAN, failing \in InsertFailures :
         RefreshProcessWith(r, s, TRUE, selOk, fetchOk, failing)

\* Promise.all has settled: fetchSessions(), then finally.
RefreshFinish(r) ==
  /\ runs[r].pc = "process"
  /\ runs[r].todo = {}
  /\ \E fOk \in BOOLEAN :
       /\ RefreshEnd(r, IF fOk THEN NULL ELSE ErrorText)
       /\ sessionsList' = IF fOk /\ Live(r)
                            THEN [sessionsList EXCEPT !.fetches = @ \cup {runs[r].closure}]
                            ELSE sessionsList
  /\ UNCHANGED <<sessionsTable, messagesTable, nextId, now, preTrash>>
  /\ UNCHANGED_App /\ UNCHANGED_Provider
  /\ UNCHANGED_Others

-----------------------------------------------------------------------------
(* App: what is rendered.  SessionsList is mounted while the operator is     *)
(* signed in and the view is 'sessions'; each mount is a new instance with   *)
(* fresh state, its first fetchSessions() and its own interval timer.        *)

Views == {"dashboard", "sessions"}

\* A faulty variant of ClearInterval: the effect returns no cleanup
ClearIntervalForgotten(ts, inst) == ts

\* return () => clearInterval(interval)
ClearInterval(ts, inst) == ts \ {IntervalOf(inst)}

\* A faulty variant of RenderApp: the login gate `if (!isAuthenticated)` is
\* missing, so the views are rendered whether or not a user is signed in.
RenderAppWithoutLoginGate(auth, view) ==
  LET was == Mounted
      will == view = "sessions"
  IN /\ isAuthenticated' = auth
     /\ currentView' = view
     /\ IF ~was /\ will
          THEN /\ instance < MaxMounts
               /\ instance' = instance + 1
               /\ timers' = timers \cup {IntervalOf(instance + 1)}
               /\ isRefreshing' = FALSE
               /\ \E fOk \in BOOLEAN :
                    FetchSessionsFrom(InitialSessionsList, InitialClosure, fOk)
          ELSE IF was /\ ~will
            THEN /\ timers' = ClearInterval(timers, instance)
                 /\ UNCHANGED <<instance, isRefreshing, error, sessionsList>>
            ELSE UNCHANGED <<instance, timers, isRefreshing, error, sessionsList>>
     /\ UNCHANGED <<sessionsTable, messagesTable, nextId, now, runs, preTrash>>
     /\ UNCHANGED_Provider
     /\ UNCHANGED_Others

\* App renders the login form while isAuthenticated is false and the selected
\* view inside Layout otherwise; SessionsList is mounted and unmounted with it.
RenderApp(auth, view) ==
  LET was == Mounted
      will == auth /\ view = "sessions"
  IN /\ isAuthenticated' = auth
     /\ currentView' = view
     /\ IF ~was /\ will
          THEN /\ instance < MaxMounts
               /\ instance' = instance + 1
               /\ timers' = timers \cup {IntervalOf(instance + 1)}
               /\ isRefreshing' = FALSE
               /\ \E fOk \in BOOLEAN :
                    FetchSessionsFrom(InitialSessionsList, InitialClosure, fOk)
          ELSE IF was /\ ~will
            THEN /\ timers' = ClearInterval(timers, instance)
                 /\ UNCHANGED <<instance, isRefreshing, error, sessionsList>>
            ELSE UNCHANGED <<instance, timers, isRefreshing, error, sessionsList>>
     /\ UNCHANGED <<sessionsTable, messagesTable, nextId, now, runs, preTrash>>
     /\ UNCHANGED_Provider
     /\ UNCHANGED_Others

\* supabase.auth.onAuthStateChange((event, session) => setIsAuthenticated(!!session))
AuthStateChange(signedIn) ==
  /\ signedIn # isAuthenticated
  /\ RenderApp(signedIn, currentView)

\* The navigation buttons: setCurrentView('dashboard' | 'sessions')
SetCurrentView(view) ==
  /\ isAuthenticated
  /\ view # currentView
  /\ RenderApp(isAuthenticated, view)

-----------------------------------------------------------------------------
(* SessionDetails: refreshMessages, and the provider's side of a chat *)

\* refreshMessages of the SessionDetails that shows sid:
\* await syncHeyGenMessages(sessionId); await fetchMessages(), whose query is
\* then in flight.
RefreshMessagesWith(sid, selOk, fetchOk, failing) ==
  /\ Mounted
  /\ sid < nextId
  /\ sessionDetails.sessionId = sid
  /\ messagesTable' = SyncHeyGenMessages(messagesTable, sessionsTable, sid,
                                         selOk, fetchOk, failing)
  /\ sessionDetails' = [sessionDetails EXCEPT !.fetches = @ \cup {sid}]
  /\ UNCHANGED <<sessionsTable, nextId, now, error, preTrash>>
  /\ UNCHANGED_App /\ UNCHANGED_Provider /\ UNCHANGED_Refresh
  /\ UNCHANGED <<sessionsList, dashboardStats>>

RefreshMessages(sid) ==
  \E selOk, fetchOk \in BOOLEAN, failing \in InsertFailures :
    RefreshMessagesWith(sid, selOk, fetchOk, failing)

\* The user or the avatar says something in a session that is active at the
\* provider: the transcript grows by a message stamped with its position.
ProviderSay(sid) ==
  /\ sid \in providerActive
  /\ Len(transcript[sid]) < MaxTranscript
  /\ \E role \in Roles, content \in Contents :
       transcript' = [transcript EXCEPT ![sid] =
          Append(@, [role |-> role, content |-> content,
                     timestamp |-> Len(transcript[sid]) + 1])]
  /\ UNCHANGED <<sessionsTable, messagesTable, nextId, now, error, preTrash, providerActive>>
  /\ UNCHANGED_App /\ UNCHANGED_Refresh
  /\ UNCHANGED_Components

-----------------------------------------------------------------------------
(* The environment *)

\* A chat is recorded: the backend inserts its row.
InsertSession(status) ==
  /\ nextId \in SessionIds
  /\ LET res == InsertIntoSessions(sessionsTable, messagesTable, nextId, status, now)
     IN /\ res.ok
        /\ sessionsTable' = res.table
        /\ nextId' = nextId + 1
        /\ preTrash' = PreTrashAfter(res.table, {}, Absent)
  /\ UNCHANGED <<messagesTable, now, error>>
  /\ UNCHANGED_App /\ UNCHANGED_Provider /\ UNCHANGED_Refresh
  /\ UNCHANGED_Components

AdvanceTime ==
  /\ \E t \in Times : t > now /\ now' = t
  /\ UNCHANGED <<sessionsTable, messagesTable, nextId, error, preTrash>>
  /\ UNCHANGED_App /\ UNCHANGED_Provider /\ UNCHANGED_Refresh
  /\ UNCHANGED_Components

-----------------------------------------------------------------------------
(* Specification of the session lifecycle: a signed-in operator on the      *)
(* sessions view, the backend inserting sessions, and the clock.            *)

FirstMessage == [session_id |-> 1, sender |-> "user", message |-> "a", timestamp |-> 0]

Init ==
  /\ sessionsTable = [s \in SessionIds |-> IF s = 1 THEN NewSession("active", 0) ELSE Absent]
  /\ messagesTable = <<FirstMessage>>
  /\ nextId = 2
  /\ now = 0
  /\ providerActive = {}
  /\ transcript = [s \in SessionIds |-> << >>]
  /\ isAuthenticated = TRUE
  /\ currentView = "sessions"
  /\ instance = 1
  /\ timers = {IntervalOf(1)}
  /\ error = NULL
  /\ isRefreshing = FALSE
  /\ runs = NoRuns
  /\ preTrash = [s \in SessionIds |-> Absent]
  /\ InitComponentsMounted

Next ==
  \/ \E sid \in SessionIds : HandleToggleRelevant(sid)
  \/ \E sid \in SessionIds : HandleToggleArchived(sid)
  \/ \E sid \in SessionIds : HandleMoveToTrash(sid)
  \/ \E sid \in SessionIds : HandleRestoreFromTrash(sid)
  \/ \E sid \in SessionIds : HandleStopSession(sid)
  \/ DismissError
  \/ InsertSession("active")
  \/ AdvanceTime

Spec == Init /\ [][Next]_vars

-----------------------------------------------------------------------------------------------------------------------------------------------------
(* Specification of the lifecycle handlers alone, on day 31: the table holds *)
(* every session, each live or put in the trash on day 0 or day 1.           *)

TrashedOn(d) == [NewSession("active", 0) EXCEPT !.deleted_at = d]

InitFrame ==
  /\ sessionsTable \in [SessionIds -> {TrashedOn(d) : d \in {NoTime, 0, 1}}]
  /\ messagesTable = <<FirstMessage>>
  /\ nextId = NumSessions + 1
  /\ now = RetentionDays + 1
  /\ providerActive = {}
  /\ transcript = [s \in SessionIds |-> << >>]
  /\ isAuthenticated = TRUE
  /\ currentView = "sessions"
  /\ instance = 1
  /\ timers = {IntervalOf(1)}
  /\ error = NULL
  /\ isRefreshing = FALSE
  /\ runs = NoRuns
  /\ preTrash = [s \in SessionIds |-> Absent]
  /\ InitComponentsMounted

NextFrame ==
  \/ \E sid \in SessionIds : HandleToggleRelevant(sid)
  \/ \E sid \in SessionIds : HandleToggleArchived(sid)
  \/ \E sid \in SessionIds : HandleMoveToTrash(sid)
  \/ \E sid \in SessionIds : HandleRestoreFromTrash(sid)
  \/ \E sid \in SessionIds : HandleStopSession(sid)
  \/ DismissError

SpecFrame == InitFrame /\ [][NextFrame]_vars

-----------------------------------------------------------------------------
(* The lifecycle with the statements that can fire the cleanup happening     *)
(* whenever they can: the clock advances, the backend inserts, the operator  *)
(* keeps clicking.                                                           *)

FairSpec ==
  /\ Spec
  /\ WF_vars(AdvanceTime)
  /\ WF_vars(InsertSession("active"))
  /\ WF_vars(DismissError)
  /\ \A sid \in SessionIds :
       /\ WF_vars(HandleToggleRelevant(sid))
       /\ WF_vars(HandleToggleArchived(sid))
       /\ WF_vars(HandleStopSession(sid))

-----------------------------------------------------------------------------
(* Specification of the refresh: the operator signs in and out and changes   *)
(* view, the timer ticks, runs of handleRefresh proceed, sessions are        *)
(* stopped.  The sessions are open; session 1 is active at the provider.     *)

FirstSaid == [role |-> "user", content |-> "a", timestamp |-> 1]

InitRefresh ==
  /\ sessionsTable = [s \in SessionIds |->
                        NewSession(IF s = 1 THEN "active" ELSE "connected", 0)]
  /\ messagesTable = << >>
  /\ nextId = NumSessions + 1
  /\ now = 0
  /\ providerActive = {1}
  /\ transcript = [s \in SessionIds |-> IF s = 1 THEN <<FirstSaid>> ELSE << >>]
  /\ isAuthenticated = FALSE
  /\ currentView = "sessions"
  /\ instance = 0
  /\ timers = {}
  /\ error = NULL
  /\ isRefreshing = FALSE
  /\ runs = NoRuns
  /\ preTrash = [s \in SessionIds |-> Absent]
  /\ InitComponents

NextRefresh ==
  \/ \E signedIn \in BOOLEAN : AuthStateChange(signedIn)
  \/ \E view \in Views : SetCurrentView(view)
  \/ TimerTick
  \/ ClickRefresh
  \/ \E r \in RunIds : RefreshSelect(r)
  \/ \E r \in RunIds : RefreshGetList(r)
  \/ \E r \in RunIds : RefreshProcess(r)
  \/ \E r \in RunIds : RefreshFinish(r)
  \/ \E sid \in SessionIds : HandleStopSession(sid)
  \/ DismissError

SpecRefresh == InitRefresh /\ [][NextRefresh]_vars

-----------------------------------------------------------------------------
(* Specification of the message sync: a chat goes on at the provider and    *)
(* the operator refreshes the messages of a session again and again.        *)

InitSync ==
  /\ sessionsTable = [s \in SessionIds |-> NewSession("active", 0)]
  /\ messagesTable = << >>
  /\ nextId = NumSessions + 1
  /\ now = 0
  /\ providerActive = {1}
  /\ transcript = [s \in SessionIds |-> << >>]
  /\ isAuthenticated = TRUE
  /\ currentView = "sessions"
  /\ instance = 1
  /\ timers = {IntervalOf(1)}
  /\ error = NULL
  /\ isRefreshing = FALSE
  /\ runs = NoRuns
  /\ preTrash = [s \in SessionIds |-> Absent]
  /\ sessionsList = [InitialSessionsList EXCEPT !.fetches = {InitialClosure}]
  /\ sessionDetails \in { JustSelected(s) : s \in SessionIds }
  /\ dashboardStats = InitialDashboardStats

NextSync ==
  \/ \E sid \in SessionIds : ProviderSay(sid)
  \/ \E sid \in SessionIds : RefreshMessages(sid)

SpecSync == InitSync /\ [][NextSync]_vars

-----------------------------------------------------------------------------
(* Claims about the session lifecycle *)

Row(s) == sessionsTable[s]
Exists(s) == sessionsTable[s] # Absent
HardDeleted(s) == s < nextId /\ sessionsTable[s] = Absent
InTrash(s) == Exists(s) /\ Row(s).deleted_at # NoTime
DaysInTrash(s) == now - Row(s).deleted_at

\* C3: every row of sessions is selected by the query of exactly one of the
\* three view modes (active, archived, trash), whatever its is_archived and
\* deleted_at.
C3_ExactlyOneViewMode ==
  \A s \in SessionIds : Exists(s) => Cardinality(ViewsOf(Row(s))) = 1

\* C3 witness: the four combinations of is_archived and deleted_at occur; here
\* a row that is archived and in the trash next to one that is neither.
C3_Witness ==
  \E s, t \in SessionIds :
    /\ Exists(s) /\ Row(s).is_archived /\ Row(s).deleted_at # NoTime
    /\ Exists(t) /\ ~Row(t).is_archived /\ Row(t).deleted_at = NoTime

\* The update of handleRestoreFromTrash succeeds on the state as it is.
RestoreSucceeds(sid) ==
  UpdateSessions(sessionsTable, messagesTable, sid, RestorePatch, now, TRUE).ok

\* C4: a successful handleMoveToTrash followed by a successful
\* handleRestoreFromTrash on the same session, with no other change to that
\* session in between, leaves the row in place with deleted_at null and with
\* the status, is_archived, is_relevant and end_time it had before it was
\* trashed, so that it is back in the view mode it was in.
C4_TrashRestoreRoundTrip ==
  [][\A sid \in SessionIds :
       ( /\ preTrash[sid] # Absent
         /\ RestoreSucceeds(sid)
         /\ \E fOk \in BOOLEAN : HandleRestoreFromTrashWith(sid, TRUE, fOk) )
       => /\ sessionsTable'[sid] # Absent
          /\ sessionsTable'[sid].deleted_at = NoTime
          /\ Kept(sessionsTable'[sid]) = preTrash[sid]
          /\ ViewsOf(sessionsTable'[sid])
               = ViewsOf([is_archived |-> preTrash[sid].is_archived, deleted_at |-> NoTime])
    ]_vars

\* C4 witness: an archived session has been trashed and restored.
C4_Witness ==
  \E s \in SessionIds :
    /\ preTrash[s] # Absent /\ preTrash[s].is_archived
    /\ Exists(s) /\ Row(s).deleted_at = NoTime

\* The columns of a row
Columns == {"end_time", "status", "heygen_status", "last_sync_at",
            "is_relevant", "is_archived", "deleted_at"}

\* Session s keeps every column outside cols in this step.
ChangesOnly(s, cols) ==
  /\ sessionsTable[s] # Absent <=> sessionsTable'[s] # Absent
  /\ sessionsTable[s] # Absent =>
       \A c \in Columns \ cols : sessionsTable'[s][c] = sessionsTable[s][c]

\* Session s is removed in this step, and it was more than 30 days in the trash.
RemovedAsExpired(s) ==
  /\ sessionsTable[s] # Absent /\ sessionsTable'[s] = Absent
  /\ sessionsTable[s].deleted_at # NoTime
  /\ now - sessionsTable[s].deleted_at > RetentionDays

\* The claim's frame: the action on sid touches the columns cols of sid alone.
FrameOriginal(sid, cols) ==
  \A s \in SessionIds : IF s = sid THEN ChangesOnly(s, cols) ELSE ChangesOnly(s, {})

\* The frame with the cleanup: a row may also go because it was expired.
FrameAmended(sid, cols) ==
  \A s \in SessionIds :
    \/ RemovedAsExpired(s)
    \/ IF s = sid THEN ChangesOnly(s, cols) ELSE ChangesOnly(s, {})

StopColumns == {"status", "heygen_status", "end_time", "last_sync_at"}

\* Both forms of C5 are written contrapositively: a step that breaks the frame
\* of a handler on sid is not a step of that handler on sid.

\* C5 as stated: each lifecycle action changes only its own columns of the
\* session named by its session_id, and no row of any other session is
\* changed or removed as a result of the action.
C5_FrameOriginal ==
  [][\A sid \in SessionIds :
       /\ ~FrameOriginal(sid, {"is_relevant"}) => ~HandleToggleRelevant(sid)
       /\ ~FrameOriginal(sid, {"is_archived"}) => ~HandleToggleArchived(sid)
       /\ ~FrameOriginal(sid, {"deleted_at"}) => ~HandleMoveToTrash(sid)
       /\ ~FrameOriginal(sid, {"deleted_at"}) => ~HandleRestoreFromTrash(sid)
       /\ ~FrameOriginal(sid, StopColumns) => ~HandleStopSession(sid)
    ]_vars

\* C5 amended: each lifecycle action changes only its own columns of the
\* session named by its session_id and changes no row of any other session;
\* the only rows removed as a result of the action are sessions whose
\* deleted_at lies more than 30 days in the past, which the cleanup trigger
\* fired by the action's UPDATE hard-deletes.
C5_FrameAmended ==
  [][\A sid \in SessionIds :
       /\ ~FrameAmended(sid, {"is_relevant"}) => ~HandleToggleRelevant(sid)
       /\ ~FrameAmended(sid, {"is_archived"}) => ~HandleToggleArchived(sid)
       /\ ~FrameAmended(sid, {"deleted_at"}) => ~HandleMoveToTrash(sid)
       /\ ~FrameAmended(sid, {"deleted_at"}) => ~HandleRestoreFromTrash(sid)
       /\ ~FrameAmended(sid, StopColumns) => ~HandleStopSession(sid)
    ]_vars

\* C5 witness: a session is gone from the table while another session carries
\* the mark of a lifecycle action.
C5_Witness ==
  \E s, t \in SessionIds :
    /\ HardDeleted(t)
    /\ Exists(s) /\ (Row(s).is_relevant \/ Row(s).is_archived \/ Row(s).status = "completed")

\* C6: a row leaves the sessions table only if its deleted_at is set and lies
\* more than 30 days in the past, whatever INSERT or UPDATE fired the cleanup.
C6_CleanupOnlyExpired ==
  [][\A s \in SessionIds :
       (sessionsTable[s] # Absent /\ sessionsTable'[s] = Absent)
       => /\ sessionsTable[s].deleted_at # NoTime
          /\ now - sessionsTable[s].deleted_at > RetentionDays
    ]_vars

\* C6 witness: a session has been hard-deleted while another one, exactly 30
\* days in the trash, is still there.
C6_Witness ==
  \E s, t \in SessionIds :
    /\ HardDeleted(t)
    /\ InTrash(s) /\ DaysInTrash(s) = RetentionDays

\* C7: a session that has been in the trash for more than 30 days is
\* eventually removed from the table, unless it is restored or trashed anew.
C7_ExpiredEventuallyRemoved ==
  \A s \in SessionIds :
    (InTrash(s) /\ DaysInTrash(s) > RetentionDays)
      ~> (~Exists(s) \/ ~InTrash(s) \/ DaysInTrash(s) <= RetentionDays)

-----------------------------------------------------------------------------
(* Claims about the refresh, the timer and the stop, under SpecRefresh *)

\* Session s is recorded as completed, with its end and sync times.
RecordedCompleted(s) ==
  /\ Exists(s)
  /\ Row(s).status = "completed" /\ Row(s).heygen_status = "completed"
  /\ Row(s).end_time # NoTime /\ Row(s).last_sync_at # NoTime

\* Every callback of the run's Promise.all has settled and nothing was
\* thrown: the run is about to complete without error.
Settled(r) == runs[r].pc = "process" /\ runs[r].todo = {}

\* C1: when a run of handleRefresh has worked through its sessions without
\* error, every session it selected as open that is not in the list it got
\* from the provider is recorded as completed, with end_time and last_sync_at
\* set.
C1_RefreshCompletesAbsent ==
  \A r \in RunIds :
    Settled(r) =>
      \A s \in runs[r].selected \ runs[r].heygenIds : RecordedCompleted(s)

\* C2: while SessionsList is mounted there is exactly one interval timer, that
\* of the mounted instance, with the fixed period of 10 seconds; when it is
\* not mounted there is none, and a tick invokes handleRefresh only while the
\* list is mounted.
C2_OneTimerWhileMounted ==
  /\ [](timers = IF Mounted THEN {IntervalOf(instance)} ELSE {})
  /\ [][TimerTick => Mounted /\ Cardinality(timers) = 1]_vars

\* C2 witness: the list has been unmounted and mounted again, and a refresh
\* of the new instance is under way.
C2_Witness ==
  /\ Mounted /\ instance > 1
  /\ timers = {IntervalOf(instance)}
  /\ \E r \in RunIds : runs[r].pc # "idle" /\ runs[r].inst = instance

\* C8: when the provider does not stop the session (stopHeyGenSession returns
\* an error), handleStopSession leaves the sessions table as it is and shows
\* an error.
C8_StopOnlyAfterProviderSuccess ==
  [][\A sid \in SessionIds, reqOk, fOk \in BOOLEAN :
       HandleStopSessionWith(sid, "error", reqOk, fOk)
       => sessionsTable' = sessionsTable /\ error' # NULL
    ]_vars

-----------------------------------------------------------------------------
(* Claims about the message sync, under SpecSync *)

\* The rows of messages stored for session sid
StoredFor(msgs, sid) == { i \in DOMAIN msgs : msgs[i].session_id = sid }

\* The rows a step appends to messages
Inserted == { i \in DOMAIN messagesTable' : i > Len(messagesTable) }

\* C9: a sync inserts a provider message only when no message with that text
\* is already stored for the session, so that a second run against an
\* unchanged transcript inserts nothing.
C9_InsertsOnlyNew ==
  [][\A i \in Inserted :
       \A k \in StoredFor(messagesTable, messagesTable'[i].session_id) :
         messagesTable[k].message # messagesTable'[i].message
    ]_vars

\* Message m of the provider is stored for session sid.
IsStored(msgs, sid, m) ==
  \E k \in StoredFor(msgs, sid) :
    /\ msgs[k].message = m.content
    /\ msgs[k].sender = (IF m.role = "user" THEN "user" ELSE "avatar")
    /\ msgs[k].timestamp = m.timestamp

\* C10: after a sync of session sid in which the stored messages were read,
\* the transcript was fetched and no insert failed, every message of the
\* transcript is stored with its sender and its timestamp, and the session
\* has at least as many stored messages as the transcript has.
C10_AllStoredAfterSync ==
  [][\A sid \in SessionIds :
       ( /\ Len(messagesTable) + Len(transcript[sid]) <= MaxStored
         /\ RefreshMessagesWith(sid, TRUE, TRUE, {}) )
       => /\ \A i \in DOMAIN transcript[sid] :
               IsStored(messagesTable', sid, transcript[sid][i])
          /\ Cardinality(StoredFor(messagesTable', sid)) >= Len(transcript[sid])
    ]_vars

-----------------------------------------------------------------------------
(* The CHECK constraints of sessions.  SQL comparisons are three-valued: a   *)
(* comparison with NULL is unknown, and a CHECK rejects a row only when its  *)
(* expression is false.                                                      *)

\* A text that is none of the five states
OtherText == "paused"
Texts == Statuses \cup {OtherText}

\* a = b in SQL
SqlEq(a, b) ==
  IF a = NULL \/ b = NULL THEN "unknown"
  ELSE IF a = b THEN "true" ELSE "false"

\* x = ANY (ARRAY[...]) in SQL: true when an element equals x, otherwise
\* unknown when a comparison is unknown, otherwise false
SqlEqAny(x, array) ==
  IF \E e \in array : SqlEq(x, e) = "true" THEN "true"
  ELSE IF \E e \in array : SqlEq(x, e) = "unknown" THEN "unknown"
  ELSE "false"

\* A CHECK constraint is violated only when its expression is false.
CheckSatisfied(value) == value # "false"

\* sessions_status_check:
\* CHECK (status = ANY (ARRAY['active', 'connecting', 'connected', 'completed', 'error']))
StatusCheck(status) == CheckSatisfied(SqlEqAny(status, Statuses))

\* sessions_heygen_status_check:
\* CHECK (heygen_status = ANY (ARRAY['active', 'connecting', 'connected',
\*                                   'completed', 'error', NULL::text]))
HeygenStatusCheck(heygenStatus) ==
  CheckSatisfied(SqlEqAny(heygenStatus, Statuses \cup {NULL}))

\* A client writes the two status columns of a session (the generated types
\* take any string for heygen_status): the statement is rejected when a CHECK
\* is violated, and fires the cleanup trigger otherwise.
WriteStatusColumns(sid, status, heygenStatus) ==
  /\ sessionsTable[sid] # Absent
  /\ StatusCheck(status)
  /\ HeygenStatusCheck(heygenStatus)
  /\ LET res == UpdateSessions(sessionsTable, messagesTable, sid,
                               [status |-> status, heygen_status |-> heygenStatus],
                               now, TRUE)
     IN /\ res.ok
        /\ sessionsTable' = res.table
        /\ preTrash' = PreTrashAfter(res.table, {}, Absent)
  /\ UNCHANGED <<messagesTable, nextId, now, error>>
  /\ UNCHANGED_App /\ UNCHANGED_Provider /\ UNCHANGED_Refresh
  /\ UNCHANGED_Components

InitConstraint ==
  /\ sessionsTable = [s \in SessionIds |-> NewSession("active", 0)]
  /\ messagesTable = << >>
  /\ nextId = NumSessions + 1
  /\ now = 0
  /\ providerActive = {}
  /\ transcript = [s \in SessionIds |-> << >>]
  /\ isAuthenticated = TRUE
  /\ currentView = "sessions"
  /\ instance = 1
  /\ timers = {IntervalOf(1)}
  /\ error = NULL
  /\ isRefreshing = FALSE
  /\ runs = NoRuns
  /\ preTrash = [s \in SessionIds |-> Absent]
  /\ InitComponentsMounted

NextConstraint ==
  \E sid \in SessionIds, status \in Texts \cup {NULL}, heygenStatus \in Texts \cup {NULL} :
    WriteStatusColumns(sid, status, heygenStatus)

SpecConstraint == InitConstraint /\ [][NextConstraint]_vars

\* C11: every row of sessions has a heygen_status that is one of active,
\* connecting, connected, completed, error, or NULL.
C11_HeygenStatusValid ==
  \A s \in SessionIds :
    Exists(s) => Row(s).heygen_status \in Statuses \cup {NULL}

-----------------------------------------------------------------------------
(* Row-level security (calm_mode.sql 49-65, dusty_forest.sql 48-64, and the
   flags migration).  Row security is enabled on both tables, so a request of
   a role that is subject to it touches a row only through a policy created
   for that role and command; with no such policy the request sees no row.
   The policies are evaluated here for the requests of the API roles.  The
   statements of the dashboard itself (UpdateSessions, SyncLoop) stay modelled
   by the SQL they send: the credentials of its client are set in
   lib/supabase, which is not among these sources, and the migrations create
   no INSERT or DELETE policy for any role. *)

\* The roles whose requests are subject to row security.
RequestRoles == {"anon", "authenticated"}

\* ALTER TABLE ... ENABLE ROW LEVEL SECURITY.
RowSecurityEnabled == {"sessions", "messages"}

\* A faulty variant of Policies: the read policy of messages is created for
\* every role.
PoliciesMessagesReadableByAll ==
  { [name |-> "Allow authenticated users to read sessions",
     table |-> "sessions", command |-> "SELECT", to |-> {"authenticated"}, using |-> TRUE],
    [name |-> "Allow authenticated users to read messages",
     table |-> "messages", command |-> "SELECT", to |-> RequestRoles, using |-> TRUE],
    [name |-> "Users can view all sessions including trashed",
     table |-> "sessions", command |-> "SELECT", to |-> {"authenticated"}, using |-> TRUE],
    [name |-> "Users can update sessions",
     table |-> "sessions", command |-> "UPDATE", to |-> {"authenticated"}, using |-> TRUE],
    [name |-> "Users can update session flags",
     table |-> "sessions", command |-> "UPDATE", to |-> {"authenticated"}, using |-> TRUE] }

\* Every CREATE POLICY of the migrations; USING and WITH CHECK are (true) in
\* all of them.
Policies ==
  { [name |-> "Allow authenticated users to read sessions",
     table |-> "sessions", command |-> "SELECT", to |-> {"authenticated"}, using |-> TRUE],
    [name |-> "Allow authenticated users to read messages",
     table |-> "messages", command |-> "SELECT", to |-> {"authenticated"}, using |-> TRUE],
    [name |-> "Users can view all sessions including trashed",
     table |-> "sessions", command |-> "SELECT", to |-> {"authenticated"}, using |-> TRUE],
    [name |-> "Users can update sessions",
     table |-> "sessions", command |-> "UPDATE", to |-> {"authenticated"}, using |-> TRUE],
    [name |-> "Users can update session flags",
     table |-> "sessions", command |-> "UPDATE", to |-> {"authenticated"}, using |-> TRUE] }

\* Permissive policies are OR-ed; a table with row security enabled and no
\* applicable policy denies by default.
RlsPermits(role, table, command) ==
  \/ table \notin RowSecurityEnabled
  \/ \E p \in Policies :
       /\ p.table = table
       /\ p.command = command
       /\ role \in p.to
       /\ p.using

\* The rows a SELECT of the role returns.
VisibleSessions(role, table) ==
  IF RlsPermits(role, "sessions", "SELECT")
    THEN { s \in SessionIds : table[s] # Absent }
    ELSE {}

VisibleMessages(role, msgs) ==
  IF RlsPermits(role, "messages", "SELECT") THEN DOMAIN msgs ELSE {}

\* The columns the dashboard writes, with the values a request can send.
FlagPatches ==
  { [is_relevant |-> b] : b \in BOOLEAN } \cup { [is_archived |-> b] : b \in BOOLEAN }
    \cup { [status |-> st] : st \in Statuses }

\* UPDATE sessions SET ... WHERE session_id = sid, sent in the given role.  An
\* UPDATE reads the row it changes, so it needs the role's SELECT and UPDATE
\* policies; a row hidden from the role is not updated and no error is raised.
RequestUpdate(role, sid, patch) ==
  /\ sessionsTable[sid] # Absent
  /\ LET permitted == /\ sid \in VisibleSessions(role, sessionsTable)
                      /\ RlsPermits(role, "sessions", "UPDATE")
         res == UpdateSessions(sessionsTable, messagesTable, sid, patch, now, TRUE)
     IN IF permitted /\ res.ok
          THEN /\ sessionsTable' = res.table
               /\ preTrash' = PreTrashAfter(res.table, {}, Absent)
          ELSE UNCHANGED <<sessionsTable, preTrash>>
  /\ UNCHANGED <<messagesTable, nextId, now, error>>
  /\ UNCHANGED_App /\ UNCHANGED_Provider /\ UNCHANGED_Refresh
  /\ UNCHANGED_Components

InitRls ==
  /\ sessionsTable = [s \in SessionIds |-> NewSession("active", 0)]
  /\ messagesTable = <<FirstMessage>>
  /\ nextId = NumSessions + 1
  /\ now = 0
  /\ providerActive = {}
  /\ transcript = [s \in SessionIds |-> << >>]
  /\ isAuthenticated = FALSE
  /\ currentView = "sessions"
  /\ instance = 0
  /\ timers = {}
  /\ error = NULL
  /\ isRefreshing = FALSE
  /\ runs = NoRuns
  /\ preTrash = [s \in SessionIds |-> Absent]
  /\ InitComponents

NextRls ==
  \E role \in RequestRoles, sid \in SessionIds, patch \in FlagPatches :
    RequestUpdate(role, sid, patch)

SpecRls == InitRls /\ [][NextRls]_vars

\* C12: a request of a role other than authenticated reads no row of sessions
\* or messages and its UPDATE changes no row of sessions; a request of the
\* authenticated role reads every row of both tables and may update sessions.
C12_OnlyAuthenticatedReadsAndUpdates ==
  /\ [](\A role \in RequestRoles \ {"authenticated"} :
          /\ VisibleSessions(role, sessionsTable) = {}
          /\ VisibleMessages(role, messagesTable) = {})
  /\ [](/\ VisibleSessions("authenticated", sessionsTable)
             = { s \in SessionIds : Exists(s) }
        /\ VisibleMessages("authenticated", messagesTable) = DOMAIN messagesTable
        /\ RlsPermits("authenticated", "sessions", "UPDATE"))
  /\ [][\A role \in RequestRoles \ {"authenticated"}, sid \in SessionIds,
           patch \in FlagPatches :
          RequestUpdate(role, sid, patch) => UNCHANGED sessionsTable]_vars

\* Both tables hold rows, and an UPDATE of the authenticated role has changed
\* a row of sessions.
C12_Witness ==
  /\ messagesTable # << >>
  /\ \E s \in SessionIds : Exists(s) /\ Row(s).is_relevant /\ Row(s).status = "completed"

-----------------------------------------------------------------------------
(* Claim about the login gate (App.tsx 24-30, 93-141) *)

\* App.tsx 93: the login form is what App renders.
LoginFormShown == ~isAuthenticated

\* C13: the session list, with its refresh timer, exists only while
\* isAuthenticated is true; every auth state-change event sets isAuthenticated
\* to whether it carried a session and nothing else changes it; an event
\* without a session (sign-out) brings the login form back and unmounts the
\* list.
C13_AuthGate ==
  /\ [](timers # {} => isAuthenticated)
  /\ [][\A signedIn \in BOOLEAN :
          AuthStateChange(signedIn) =>
            /\ isAuthenticated' = signedIn
            /\ (~signedIn => LoginFormShown' /\ timers' = {})]_vars
  /\ [][isAuthenticated' # isAuthenticated => AuthStateChange(isAuthenticated')]_vars

\* The operator signed in, the list was mounted, and a sign-out has brought
\* the login form back.
C13_Witness == LoginFormShown /\ instance >= 1 /\ timers = {}

-----------------------------------------------------------------------------
(* Claim about completed sessions (App.tsx 286-325, 402-431) *)

\* The operator is signed in and looks at the list; the clock runs while
\* refreshes and stops are under way.
InitTerminal ==
  /\ sessionsTable = [s \in SessionIds |->
                        NewSession(IF s = 1 THEN "active" ELSE "connected", 0)]
  /\ messagesTable = << >>
  /\ nextId = NumSessions + 1
  /\ now = 0
  /\ providerActive = {1}
  /\ transcript = [s \in SessionIds |-> IF s = 1 THEN <<FirstSaid>> ELSE << >>]
  /\ isAuthenticated = TRUE
  /\ currentView = "sessions"
  /\ instance = 1
  /\ timers = {IntervalOf(1)}
  /\ error = NULL
  /\ isRefreshing = FALSE
  /\ runs = NoRuns
  /\ preTrash = [s \in SessionIds |-> Absent]
  /\ InitComponentsMounted

NextTerminal ==
  \/ TimerTick
  \/ ClickRefresh
  \/ \E r \in RunIds : RefreshSelect(r)
  \/ \E r \in RunIds : RefreshGetList(r)
  \/ \E r \in RunIds : RefreshProcess(r)
  \/ \E r \in RunIds : RefreshFinish(r)
  \/ \E sid \in SessionIds : HandleStopSession(sid)
  \/ DismissError
  \/ AdvanceTime

SpecTerminal == InitTerminal /\ [][NextTerminal]_vars

\* The row of the session records a completed session.
IsCompleted(row) == row # Absent /\ row.status = "completed" /\ row.end_time # NoTime

\* C14: once a session has status completed and an end_time, no step changes
\* its status or its end_time.
C14_CompletedIsTerminal ==
  [][\A s \in SessionIds :
       IsCompleted(sessionsTable[s]) =>
         /\ sessionsTable'[s] # Absent
         /\ sessionsTable'[s].status = "completed"
         /\ sessionsTable'[s].end_time = sessionsTable[s].end_time]_vars

-----------------------------------------------------------------------------
(* Claim about overlapping refreshes (App.tsx 279-284, 394-400, 613-620) *)

\* The executions of handleRefresh that have passed the guard and have not
\* reached their end.
RunsInProgress == { r \in DOMAIN runs : runs[r].pc # "idle" }

\* The list is mounted and up to MaxOverlap executions of handleRefresh can be
\* under way.
InitOverlap ==
  /\ sessionsTable = [s \in SessionIds |->
                        NewSession(IF s = 1 THEN "active" ELSE "connected", 0)]
  /\ messagesTable = << >>
  /\ nextId = NumSessions + 1
  /\ now = 0
  /\ providerActive = {1}
  /\ transcript = [s \in SessionIds |-> IF s = 1 THEN <<FirstSaid>> ELSE << >>]
  /\ isAuthenticated = TRUE
  /\ currentView = "sessions"
  /\ instance = 1
  /\ timers = {IntervalOf(1)}
  /\ error = NULL
  /\ isRefreshing = FALSE
  /\ runs = [r \in 1..MaxOverlap |-> [pc |-> "idle"]]
  /\ preTrash = [s \in SessionIds |-> Absent]
  /\ InitComponentsMounted

NextOverlap ==
  \/ TimerTick
  \/ ClickRefresh
  \/ \E r \in DOMAIN runs : RefreshSelect(r)
  \/ \E r \in DOMAIN runs : RefreshGetList(r)
  \/ \E r \in DOMAIN runs : RefreshProcess(r)
  \/ \E r \in DOMAIN runs : RefreshFinish(r)
  \/ DismissError

SpecOverlap == InitOverlap /\ [][NextOverlap]_vars

\* C15: at most one execution of handleRefresh is in progress at any time.
C15_OneRefreshAtATime == Cardinality(RunsInProgress) <= 1

-----------------------------------------------------------------------------
(* Claim about the displayed list (App.tsx 336-392, 327) *)

\* The rows the query of fetchSessions selects: the view mode's predicate and,
\* unless the filter is 'all', the status.
QueryResult(table, closure) ==
  { s \in SessionIds :
      /\ table[s] # Absent
      /\ ViewModePredicate(closure.viewMode, table[s])
      /\ (closure.filter # "all" => table[s].status = closure.filter) }

\* A view button: setViewMode(mode); the effect with the dependencies
\* [filter, startDate, endDate, viewMode] then calls the fetchSessions of the
\* new render.
SetViewModeWith(mode, fOk) ==
  /\ Mounted /\ error = NULL
  /\ mode # sessionsList.viewMode
  /\ FetchSessionsFrom([sessionsList EXCEPT !.viewMode = mode],
                       [viewMode |-> mode, filter |-> sessionsList.filter], fOk)
  /\ UNCHANGED <<sessionsTable, messagesTable, nextId, now, preTrash>>
  /\ UNCHANGED_App /\ UNCHANGED_Provider /\ UNCHANGED_Refresh
  /\ UNCHANGED_Others

\* The query of a fetchSessions is answered: setSessions(supabaseSessions).
\* No fetch is cancelled or numbered, so every answer is applied, in the order
\* of arrival.
FetchSessionsAnswer(closure) ==
  /\ Mounted
  /\ closure \in sessionsList.fetches
  /\ sessionsList' = [sessionsList EXCEPT
                        !.sessions = QueryResult(sessionsTable, closure),
                        !.fetches = @ \ {closure}]
  /\ UNCHANGED <<sessionsTable, messagesTable, nextId, now, error, preTrash>>
  /\ UNCHANGED_App /\ UNCHANGED_Provider /\ UNCHANGED_Refresh
  /\ UNCHANGED_Others

\* The list is mounted and shows the answer of its first fetch: session 1 is
\* open, the others are in the trash.
InitFetch ==
  /\ sessionsTable = [s \in SessionIds |->
                        IF s = 1 THEN NewSession("active", 0) ELSE TrashedOn(0)]
  /\ messagesTable = << >>
  /\ nextId = NumSessions + 1
  /\ now = 0
  /\ providerActive = {1}
  /\ transcript = [s \in SessionIds |-> IF s = 1 THEN <<FirstSaid>> ELSE << >>]
  /\ isAuthenticated = TRUE
  /\ currentView = "sessions"
  /\ instance = 1
  /\ timers = {IntervalOf(1)}
  /\ error = NULL
  /\ isRefreshing = FALSE
  /\ runs = NoRuns
  /\ preTrash = [s \in SessionIds |-> Absent]
  /\ sessionsList = [InitialSessionsList EXCEPT
                       !.sessions = QueryResult(sessionsTable, InitialClosure)]
  /\ sessionDetails = InitialSessionDetails
  /\ dashboardStats = InitialDashboardStats

\* The queries that the view buttons cause are answered; a query of a refresh
\* may fail.
NextFetch ==
  \/ \E mode \in VIEW_MODES : SetViewModeWith(mode, TRUE)
  \/ \E closure \in sessionsList.fetches : FetchSessionsAnswer(closure)
  \/ TimerTick
  \/ ClickRefresh
  \/ \E r \in RunIds : RefreshSelect(r)
  \/ \E r \in RunIds : RefreshGetList(r)
  \/ \E r \in RunIds : RefreshProcess(r)
  \/ \E r \in RunIds : RefreshFinish(r)
  \/ DismissError

SpecFetch == InitFetch /\ [][NextFetch]_vars

\* C16: whenever the list is shown and no fetch of the sessions is in flight,
\* the displayed sessions are the result of the query for the current filter
\* and view mode.
C16_ListMatchesQuery ==
  (Mounted /\ error = NULL /\ sessionsList.fetches = {}) =>
     sessionsList.sessions = QueryResult(sessionsTable, CurrentClosure)

-----------------------------------------------------------------------------
(* Claim about a refresh without the provider's list (App.tsx 300-325) *)

\* The columns of a row that tell whether and when the session ended.
StatusColumns(row) ==
  [status |-> row.status, heygen_status |-> row.heygen_status, end_time |-> row.end_time]

\* The step is a callback of Promise.all of the execution r of handleRefresh.
ProcessesASession(r) ==
  /\ runs[r].pc = "process"
  /\ runs'[r].pc = "process"
  /\ runs'[r].todo # runs[r].todo

\* C17: an execution of handleRefresh that could not obtain the provider's
\* list of active sessions changes the status, heygen_status and end_time of
\* no session.
C17_NoListNoChange ==
  [][\A r \in DOMAIN runs :
       (ProcessesASession(r) /\ ~runs[r].listObtained) =>
          \A s \in SessionIds :
            sessionsTable[s] # Absent =>
              /\ sessionsTable'[s] # Absent
              /\ StatusColumns(sessionsTable'[s]) = StatusColumns(sessionsTable[s])]_vars

-----------------------------------------------------------------------------
(* Claim about the displayed messages (SessionDetails 86-138, 141-208;
   App.tsx 186-194) *)

\* A row of the list is clicked: onSessionSelect(session.session_id).  App
\* renders <SessionDetails sessionId={selectedSessionId} /> without a key, so
\* the component is mounted by the first selection and keeps its state when
\* the prop changes; the effect with the dependency [sessionId] then calls
\* fetchMessages for the new session.
SelectSession(sid) ==
  /\ RowShown(sid)
  /\ sid # sessionDetails.sessionId
  /\ sessionDetails' =
       IF sessionDetails.sessionId = NoSession
         THEN JustSelected(sid)
         ELSE [sessionDetails EXCEPT !.sessionId = sid, !.fetches = @ \cup {sid}]
  /\ UNCHANGED <<sessionsTable, messagesTable, nextId, now, error, preTrash>>
  /\ UNCHANGED_App /\ UNCHANGED_Provider /\ UNCHANGED_Refresh
  /\ UNCHANGED <<sessionsList, dashboardStats>>

\* The queries of a fetchMessages for session sid are answered:
\* setMessages(messagesData) with the rows of that session, or, when a query
\* fails or the session is not found, only the error is set.
FetchMessagesAnswerWith(sid, ok) ==
  /\ sessionDetails.sessionId # NoSession
  /\ sid \in sessionDetails.fetches
  /\ sessionDetails' =
       [sessionDetails EXCEPT
          !.messages = IF ok /\ sessionsTable[sid] # Absent
                         THEN StoredFor(messagesTable, sid) ELSE @,
          !.fetches = @ \ {sid}]
  /\ UNCHANGED <<sessionsTable, messagesTable, nextId, now, error, preTrash>>
  /\ UNCHANGED_App /\ UNCHANGED_Provider /\ UNCHANGED_Refresh
  /\ UNCHANGED <<sessionsList, dashboardStats>>

\* The list is shown; every session has a stored message and a transcript at
\* the provider; no session is selected yet.
InitDetails ==
  /\ sessionsTable = [s \in SessionIds |-> NewSession("active", 0)]
  /\ messagesTable = [s \in SessionIds |->
                        [session_id |-> s, sender |-> "user", message |-> "a", timestamp |-> 0]]
  /\ nextId = NumSessions + 1
  /\ now = 0
  /\ providerActive = SessionIds
  /\ transcript = [s \in SessionIds |-> <<FirstSaid>>]
  /\ isAuthenticated = TRUE
  /\ currentView = "sessions"
  /\ instance = 1
  /\ timers = {IntervalOf(1)}
  /\ error = NULL
  /\ isRefreshing = FALSE
  /\ runs = NoRuns
  /\ preTrash = [s \in SessionIds |-> Absent]
  /\ InitComponentsMounted

\* The queries of fetchMessages are answered.
NextDetails ==
  \/ \E sid \in SessionIds : SelectSession(sid)
  \/ \E sid \in SessionIds : FetchMessagesAnswerWith(sid, TRUE)
  \/ \E sid \in SessionIds : RefreshMessages(sid)

SpecDetails == InitDetails /\ [][NextDetails]_vars

\* C18: once no fetch of messages is outstanding, every displayed message
\* belongs to the selected session.
C18_MessagesOfSelectedSession ==
  (sessionDetails.sessionId # NoSession /\ sessionDetails.fetches = {}) =>
     \A i \in sessionDetails.messages :
        messagesTable[i].session_id = sessionDetails.sessionId

-----------------------------------------------------------------------------
(* DashboardStats: getChartData (part_001 93-180).

   A date string 'YYYY-MM-DD' is kept as the number of its day and a
   timestamp as the number of its hour, both counted in UTC from a Sunday
   (day 0); a local time is an hour of the wall clock of the browser's time
   zone.  The values of avgMessages, which have one decimal, are kept in
   tenths. *)

HoursPerDay == 24
DaysPerWeek == 7

\* The days the data of the dashboard covers: a Saturday, a Sunday and a
\* Monday.
FirstDay == 6
Days == FirstDay..(FirstDay + MaxDays - 1)

\* The time zones of the browser: UTC, a zone west of it, and a zone east of
\* it whose daylight saving time ends on the Sunday of the data at 01:00 UTC.
NeverEnds == 0
DaylightEnds == (FirstDay + 1) * HoursPerDay + 1
TimeZones ==
  { [name |-> "UTC", standard |-> 0, daylight |-> 0, daylightEnds |-> NeverEnds],
    [name |-> "America/Bogota", standard |-> 0 - 5, daylight |-> 0 - 5,
     daylightEnds |-> NeverEnds],
    [name |-> "Europe/Amsterdam", standard |-> 1, daylight |-> 2,
     daylightEnds |-> DaylightEnds] }

\* new Date('YYYY-MM-DD'): midnight UTC of the day.
ParseDate(day) == day * HoursPerDay

\* toISOString().split('T')[0] and created_at.split('T')[0]: the UTC day.
IsoDay(t) == t \div HoursPerDay

\* created_at.split(':')[0] + ':00': the timestamp cut to its hour.
IsoHour(t) == t

\* The wall clock of the zone at the instant t, and the instant of a wall
\* clock time (the earlier one where the wall clock repeats an hour).
OffsetAt(zone, t) == IF t < zone.daylightEnds THEN zone.daylight ELSE zone.standard
LocalTime(zone, t) == t + OffsetAt(zone, t)
UTCOf(zone, wall) ==
  IF wall - zone.daylight < zone.daylightEnds
    THEN wall - zone.daylight
    ELSE wall - zone.standard

\* Date.prototype.getDay of a wall clock time: 0 is Sunday.
GetDay(wall) == (wall \div HoursPerDay) % DaysPerWeek

\* weekStart.setDate(date.getDate() - date.getDay()): the wall clock goes
\* back by whole days and keeps its time of day.
SetDateBack(wall, days) == wall - days * HoursPerDay

\* const weekKey = weekStart.toISOString().split('T')[0]
WeekKey(zone, day) ==
  LET date == LocalTime(zone, ParseDate(day))
      weekStart == SetDateBack(date, GetDay(date))
  IN IsoDay(UTCOf(zone, weekStart))

MetricTypes == {"sessions", "messages", "avgMessages", "avgDuration"}
TimeIntervals == {"hour", "day", "week"}

MetricLabel(metric) ==
  CASE metric = "sessions"    -> "Aantal sessies"
    [] metric = "messages"    -> "Aantal berichten"
    [] metric = "avgMessages" -> "Gem. berichten per sessie"
    [] metric = "avgDuration" -> "Gem. sessieduur (min)"

\* value: 12, the placeholder of avgDuration.
PlaceholderDuration == 12

\* acc.find(w => w.date === key): add to the bucket of the date, or push one.
AddToBucket(acc, p) ==
  IF \E j \in DOMAIN acc : acc[j].date = p.date
    THEN [j \in DOMAIN acc |->
            IF acc[j].date = p.date THEN [acc[j] EXCEPT !.value = @ + p.value]
                                    ELSE acc[j]]
    ELSE Append(acc, p)

RECURSIVE Reduce(_, _, _)
Reduce(points, i, acc) ==
  IF i > Len(points) THEN acc
  ELSE Reduce(points, i + 1, AddToBucket(acc, points[i]))

RECURSIVE SumOf(_, _)
\* reduce((sum, m) => sum + m.value, 0) from index i on
SumOf(points, i) ==
  IF i > Len(points) THEN 0 ELSE points[i].value + SumOf(points, i + 1)

RECURSIVE SortByDate(_)
\* .sort((a, b) => a.date.localeCompare(b.date)) of buckets with distinct dates
SortByDate(points) ==
  IF points = << >> THEN << >>
  ELSE LET m == CHOOSE i \in DOMAIN points :
                  \A j \in DOMAIN points : points[i].date <= points[j].date
       IN <<points[m]>> \o
          SortByDate([k \in 1..(Len(points) - 1) |->
                        IF k < m THEN points[k] ELSE points[k + 1]])

\* Number((messagesOnDay / d.session_count).toFixed(1)), in tenths
ToFixed1(numerator, denominator) ==
  (20 * numerator + denominator) \div (2 * denominator)

MessagesOnDay(data, day) ==
  SumOf([i \in DOMAIN data.message_counts |->
           [value |-> IF IsoDay(data.message_counts[i].created_at) = day
                        THEN data.message_counts[i].message_count ELSE 0]], 1)

\* switch (metric) { ... }: the daily series of the metric
DailyData(data, metric) ==
  CASE metric = "sessions" ->
         [i \in DOMAIN data.daily_sessions |->
            [date |-> data.daily_sessions[i].date,
             value |-> data.daily_sessions[i].session_count,
             label |-> "Aantal sessies"]]
    [] metric = "messages" ->
         Reduce([i \in DOMAIN data.message_counts |->
                   [date |-> IsoDay(data.message_counts[i].created_at),
                    value |-> data.message_counts[i].message_count,
                    label |-> "Aantal berichten"]], 1, << >>)
    [] metric = "avgMessages" ->
         [i \in DOMAIN data.daily_sessions |->
            LET d == data.daily_sessions[i] IN
            [date |-> d.date,
             value |-> IF d.session_count # 0
                         THEN ToFixed1(MessagesOnDay(data, d.date), d.session_count)
                         ELSE 0,
             label |-> "Gem. berichten per sessie"]]
    [] metric = "avgDuration" ->
         [i \in DOMAIN data.daily_sessions |->
            [date |-> data.daily_sessions[i].date,
             value |-> PlaceholderDuration,
             label |-> "Gem. sessieduur (min)"]]

\* getChartData(metric) with the timeInterval of the render
GetChartData(data, metric, interval, zone) ==
  LET daily == DailyData(data, metric) IN
  CASE interval = "week" ->
         Reduce([i \in DOMAIN daily |->
                   [daily[i] EXCEPT !.date = WeekKey(zone, daily[i].date)]], 1, << >>)
    [] interval = "hour" ->
         SortByDate(
           Reduce([i \in DOMAIN data.message_counts |->
                     [date |-> IsoHour(data.message_counts[i].created_at),
                      value |-> data.message_counts[i].message_count,
                      label |-> "Aantal berichten"]], 1, << >>))
    [] OTHER -> daily

\* The data get_dashboard_stats can return for the days: one row of
\* daily_sessions per day, and up to MaxMessageRows rows of message_counts.
CreatedAts == { ParseDate(FirstDay + 1), ParseDate(FirstDay + 1) + 1, ParseDate(FirstDay + 2) }
MessageCountRows ==
  [session_id : {1}, created_at : CreatedAts, message_count : 1..MaxCount]
DashboardDatas ==
  { [daily_sessions |-> [i \in 1..MaxDays |->
                           [date |-> FirstDay + i - 1, session_count |-> counts[i]]],
     message_counts |-> rows] :
      counts \in [1..MaxDays -> 0..MaxCount],
      rows \in UNION { [1..n -> MessageCountRows] : n \in 0..MaxMessageRows } }

\* A render of DashboardStats: the chart shows getChartData(selectedMetric).
Render(stats) ==
  [dashboardData  |-> stats.dashboardData,
   selectedMetric |-> stats.selectedMetric,
   timeInterval   |-> stats.timeInterval,
   timeZone       |-> stats.timeZone,
   chartData      |-> GetChartData(stats.dashboardData, stats.selectedMetric,
                                   stats.timeInterval, stats.timeZone)]

DashboardShown == isAuthenticated /\ currentView = "dashboard"

\* onChange={(e) => setSelectedMetric(e.target.value as MetricType)}
SetSelectedMetric(metric) ==
  /\ DashboardShown
  /\ metric # dashboardStats.selectedMetric
  /\ dashboardStats' = Render([dashboardStats EXCEPT !.selectedMetric = metric])
  /\ UNCHANGED <<sessionsTable, messagesTable, nextId, now, error, preTrash>>
  /\ UNCHANGED_App /\ UNCHANGED_Provider /\ UNCHANGED_Refresh
  /\ UNCHANGED <<sessionsList, sessionDetails>>

\* onChange={(e) => setTimeInterval(e.target.value as TimeInterval)}
SetTimeInterval(interval) ==
  /\ DashboardShown
  /\ interval # dashboardStats.timeInterval
  /\ dashboardStats' = Render([dashboardStats EXCEPT !.timeInterval = interval])
  /\ UNCHANGED <<sessionsTable, messagesTable, nextId, now, error, preTrash>>
  /\ UNCHANGED_App /\ UNCHANGED_Provider /\ UNCHANGED_Refresh
  /\ UNCHANGED <<sessionsList, sessionDetails>>

\* The dashboard is shown with the data it has loaded, in the time zone of
\* the browser.
InitStats ==
  /\ sessionsTable = [s \in SessionIds |-> NewSession("active", 0)]
  /\ messagesTable = << >>
  /\ nextId = NumSessions + 1
  /\ now = 0
  /\ providerActive = {}
  /\ transcript = [s \in SessionIds |-> << >>]
  /\ isAuthenticated = TRUE
  /\ currentView = "dashboard"
  /\ instance = 0
  /\ timers = {}
  /\ error = NULL
  /\ isRefreshing = FALSE
  /\ runs = NoRuns
  /\ preTrash = [s \in SessionIds |-> Absent]
  /\ sessionsList = InitialSessionsList
  /\ sessionDetails = InitialSessionDetails
  /\ dashboardStats \in
       { Render([dashboardData  |-> data,
                 selectedMetric |-> InitialDashboardStats.selectedMetric,
                 timeInterval   |-> InitialDashboardStats.timeInterval,
                 timeZone       |-> zone]) :
           data \in DashboardDatas, zone \in TimeZones }

NextStats ==
  \/ \E metric \in MetricTypes : SetSelectedMetric(metric)
  \/ \E interval \in TimeIntervals : SetTimeInterval(interval)

SpecStats == InitStats /\ [][NextStats]_vars

\* The daily series of the selected metric.
DailyOfSelected == DailyData(dashboardStats.dashboardData, dashboardStats.selectedMetric)

\* C19: with the interval 'day' the chart is the daily series unchanged; with
\* the interval 'week' the weekly values add up to the daily values, the
\* buckets have distinct keys, every key is the start day of a week (the
\* same weekday for all buckets), and every daily point lies in the week of
\* a bucket.
C19_WeekBuckets ==
  LET chart == dashboardStats.chartData IN
  /\ dashboardStats.timeInterval = "day" => chart = DailyOfSelected
  /\ dashboardStats.timeInterval = "week" =>
       /\ SumOf(chart, 1) = SumOf(DailyOfSelected, 1)
       /\ \A j, k \in DOMAIN chart : j # k => chart[j].date # chart[k].date
       /\ \E w \in 0..(DaysPerWeek - 1) :
            \A j \in DOMAIN chart : chart[j].date % DaysPerWeek = w
       /\ \A i \in DOMAIN DailyOfSelected :
            \E j \in DOMAIN chart :
               /\ chart[j].date <= DailyOfSelected[i].date
               /\ DailyOfSelected[i].date < chart[j].date + DaysPerWeek

\* C20: for every metric and interval the points of the chart carry the
\* label of the selected metric, and for the metrics that are counts their
\* values add up to the daily values of that metric.
C20_SeriesOfSelectedMetric ==
  LET chart == dashboardStats.chartData IN
  /\ \A j \in DOMAIN chart : chart[j].label = MetricLabel(dashboardStats.selectedMetric)
  /\ dashboardStats.selectedMetric \in {"sessions", "messages"} =>
       SumOf(chart, 1) = SumOf(DailyOfSelected, 1)

====
